---------------------------- MODULE Spec2Model ----------------------------
(***************************************************************************)
(* A model of the S3 facade of aws-s3-pydantic.                            *)
(*                                                                         *)
(* The facade (class S3, src/aws_s3_pydantic/main.py, and its older        *)
(* variant src/src/main.py) holds two handles, s3_resource and s3_client,  *)
(* and forwards every operation to boto3.  The object store behind boto3   *)
(* is the "world": which bucket names exist and who owns them, the keys    *)
(* each bucket holds, and the local files.  Every facade method is an      *)
(* operator from (self, world, arguments) to the exception it raises, the  *)
(* value it returns, the transport calls it made and the new world.        *)
(*                                                                         *)
(* Strings are sequences of one-character strings, so that str(), prefix   *)
(* matching and the key order of a listing are computed.                   *)
(***************************************************************************)
EXTENDS Integers, Sequences, FiniteSets, TLC

(***************************************************************************)
(* Bounds.                                                                 *)
(***************************************************************************)
\* Number of keys the service returns in one listing response page
\* (1000 for S3; scaled down so that a bucket can hold more than one page).
PageSize == 2

(***************************************************************************)
(* Python values.                                                          *)
(***************************************************************************)
None == [type |-> "None"]

Str(s) == [type |-> "str", val |-> s]

\* pathlib.Path: the path as its components.
PathOf(parts) == [type |-> "Path", parts |-> parts]

RECURSIVE Join(_)
\* "/".join(parts)
Join(parts) ==
    IF parts = <<>> THEN <<>>
    ELSE IF Len(parts) = 1 THEN parts[1]
    ELSE parts[1] \o <<"/">> \o Join(Tail(parts))

\* Python's str(v) for a str or a pathlib.Path argument.
str(v) == IF v.type = "str" THEN v ELSE Str(Join(v.parts))

\* s.startswith(p)
StartsWith(s, p) == Len(p) <= Len(s) /\ SubSeq(s, 1, Len(p)) = p

\* Code points of the characters used.
Ord(c) ==
    CASE c = "/" -> 47
      [] c = "d" -> 100
      [] c = "p" -> 112
      [] c = "q" -> 113
      [] c = "t" -> 116
      [] c = "x" -> 120
      [] c = "y" -> 121

RECURSIVE KeyLess(_, _)
\* Binary (UTF-8) order of two keys: the order S3 lists keys in.
KeyLess(a, b) ==
    IF b = <<>> THEN FALSE
    ELSE IF a = <<>> THEN TRUE
    ELSE IF Ord(Head(a)) # Ord(Head(b)) THEN Ord(Head(a)) < Ord(Head(b))
    ELSE KeyLess(Tail(a), Tail(b))

RECURSIVE SortedKeys(_)
\* The keys of a set in listing order.
SortedKeys(S) ==
    IF S = {} THEN <<>>
    ELSE LET m == CHOOSE k \in S : \A o \in S \ {k} : KeyLess(k, o)
         IN  <<m>> \o SortedKeys(S \ {m})

Elems(seq) == {seq[i] : i \in 1..Len(seq)}

Min(a, b) == IF a <= b THEN a ELSE b

(***************************************************************************)
(* Inputs.                                                                 *)
(***************************************************************************)
Buckets == {"b1", "b2"}

\* The order list_buckets returns bucket names in.
BucketOrder == <<"b1", "b2">>

\* Object keys "p/x", "p/y", "q/y".
Keys == { <<"p", "/", "x">>, <<"p", "/", "y">>, <<"q", "/", "y">> }

\* Prefixes "", "p/", "q/", "x".
Prefixes == { <<>>, <<"p", "/">>, <<"q", "/">>, <<"x">> }

\* Local files "t" and "d/t".
LocalFiles == { <<"t">>, <<"d", "/", "t">> }

\* Local path arguments: str and pathlib.Path.
LocalArgs ==
    { Str(<<"t">>), Str(<<"d", "/", "t">>), PathOf(<< <<"d">>, <<"t">> >>) }

\* Remote path arguments: str and pathlib.Path.
RemoteArgs ==
    { Str(k) : k \in Keys } \cup { PathOf(<< <<"p">>, <<"x">> >>) }

\* The location argument of create_bucket: None, "" and a region.
Locations == { None, Str(<<>>), Str(<<"x">>) }

\* os.environ values of a credential variable: unset, empty, set.
EnvValues == { None, Str(<<>>), Str(<<"x">>) }

Envs == [AWS_ACCESS_KEY_ID : EnvValues, AWS_SECRET_ACCESS_KEY : EnvValues]

\* The handles a caller may pass to S3(...).
Handles == { None, [type |-> "handle"] }

Handle == [type |-> "handle"]


(***************************************************************************)
(* The world behind the transport.                                         *)
(*   owner[b]   "none": no such bucket; "me": owned by the caller;         *)
(*              "other": the name is taken by another principal            *)
(*   objects[b] the keys bucket b holds                                    *)
(*   files      the local files that exist                                 *)
(*   pathlike   whether the installed boto3 accepts an os.PathLike         *)
(*              Filename (newer releases do, older ones raise ValueError)  *)
(***************************************************************************)
Worlds ==
    [owner : [Buckets -> {"none", "me", "other"}],
     objects : [Buckets -> SUBSET Keys],
     files : SUBSET LocalFiles,
     pathlike : BOOLEAN]

\* What a transport call gives back: the error it raises ("" for none), its
\* response and the world after it.
Reply(err, resp, w) == [err |-> err, resp |-> resp, w |-> w]

\* The error the service answers a request on bucket b with, before it looks
\* at anything else.
BucketError(w, b) ==
    CASE w.owner[b] = "none" -> "NoSuchBucket"
      [] w.owner[b] = "other" -> "AccessDenied"
      [] OTHER -> ""

\* A listing response page: up to PageSize keys of `keys` in key order; the
\* service leaves "Contents" out of the response when the page is empty.
ListResponse(keys) ==
    LET all == SortedKeys(keys)
        n == Min(Len(all), PageSize)
        page == [i \in 1..n |-> [Key |-> all[i]]]
    IN  IF n = 0
        THEN [KeyCount |-> 0, IsTruncated |-> FALSE]
        ELSE [KeyCount |-> n, IsTruncated |-> Len(all) > n, Contents |-> page]

\* s3_client.list_objects_v2(Bucket=...)
client_list_objects_v2(w, Bucket) ==
    IF BucketError(w, Bucket) # ""
    THEN Reply(BucketError(w, Bucket), None, w)
    ELSE Reply("", ListResponse(w.objects[Bucket]), w)

\* s3_client.list_objects(Bucket=...): the older listing call, same pages.
client_list_objects(w, Bucket) ==
    IF BucketError(w, Bucket) # ""
    THEN Reply(BucketError(w, Bucket), None, w)
    ELSE Reply("", ListResponse(w.objects[Bucket]), w)

\* s3_client.list_buckets(): the caller's own buckets.
client_list_buckets(w) ==
    Reply("",
          [Buckets |-> SelectSeq([i \in 1..Len(BucketOrder) |->
                                     [Name |-> BucketOrder[i]]],
                                 LAMBDA e : w.owner[e.Name] = "me")],
          w)

\* s3_client.upload_file(Filename, Bucket, Key)
client_upload_file(w, Filename, Bucket, Key) ==
    IF Filename.type # "str" /\ ~w.pathlike
    THEN Reply("ValueError", None, w)
    ELSE IF str(Filename).val \notin w.files
    THEN Reply("FileNotFoundError", None, w)
    ELSE IF Key.type # "str"
    THEN Reply("ParamValidationError", None, w)
    ELSE IF BucketError(w, Bucket) # ""
    THEN Reply(BucketError(w, Bucket), None, w)
    ELSE Reply("", None,
               [w EXCEPT !.objects[Bucket] = @ \cup {Key.val}])

\* s3_client.download_file(Bucket, Key, Filename)
client_download_file(w, Bucket, Key, Filename) ==
    IF Filename.type # "str" /\ ~w.pathlike
    THEN Reply("ValueError", None, w)
    ELSE IF Key.type # "str"
    THEN Reply("ParamValidationError", None, w)
    ELSE IF BucketError(w, Bucket) # ""
    THEN Reply(BucketError(w, Bucket), None, w)
    ELSE IF Key.val \notin w.objects[Bucket]
    THEN Reply("NoSuchKey", None, w)
    ELSE Reply("", None, [w EXCEPT !.files = @ \cup {str(Filename).val}])

\* s3_client.delete_object(Bucket=..., Key=...): deleting a key the bucket
\* does not hold is a success.
client_delete_object(w, Bucket, Key) ==
    IF Key.type # "str"
    THEN Reply("ParamValidationError", None, w)
    ELSE IF BucketError(w, Bucket) # ""
    THEN Reply(BucketError(w, Bucket), None, w)
    ELSE Reply("", None, [w EXCEPT !.objects[Bucket] = @ \ {Key.val}])

\* s3_client.create_bucket(Bucket=..., [CreateBucketConfiguration=...])
client_create_bucket(w, Bucket, CreateBucketConfiguration) ==
    CASE w.owner[Bucket] = "me" -> Reply("BucketAlreadyOwnedByYou", None, w)
      [] w.owner[Bucket] = "other" -> Reply("BucketAlreadyExists", None, w)
      [] OTHER ->
           Reply("", None,
                 [w EXCEPT !.owner[Bucket] = "me", !.objects[Bucket] = {}])

\* s3_client.delete_bucket(Bucket=...)
client_delete_bucket(w, Bucket) ==
    IF BucketError(w, Bucket) # ""
    THEN Reply(BucketError(w, Bucket), None, w)
    ELSE IF w.objects[Bucket] # {}
    THEN Reply("BucketNotEmpty", None, w)
    ELSE Reply("", None, [w EXCEPT !.owner[Bucket] = "none"])

\* s3_client.generate_presigned_url(...): local signing, no request is sent.
client_generate_presigned_url(w, ClientMethod, Params, ExpiresIn) ==
    Reply("", [method |-> ClientMethod, params |-> Params, expires |-> ExpiresIn], w)

\* The keys of the pages s3_resource.Bucket(b).objects.filter(Prefix=p) walks
\* through: page i holds the matching keys (i-1)*PageSize+1 .. i*PageSize.
FilterPage(w, Bucket, Prefix, i) ==
    LET all == SortedKeys({k \in w.objects[Bucket] : StartsWith(k, Prefix)})
    IN  SubSeq(all, (i - 1) * PageSize + 1, Min(i * PageSize, Len(all)))

\* The number of pages the collection fetches: every full page is followed
\* by another request, and an empty result still takes one request.
FilterPages(w, Bucket, Prefix) ==
    LET n == Cardinality({k \in w.objects[Bucket] : StartsWith(k, Prefix)})
    IN  IF n = 0 THEN 1 ELSE (n + PageSize - 1) \div PageSize

(***************************************************************************)
(* The facade: class S3.                                                   *)
(***************************************************************************)
\* What a method call gives back: the exception it raises ("" for none), the
\* value it returns, the transport calls it made, in order, and the world
\* after it.
Result(raised, value, calls, w) ==
    [raised |-> raised, value |-> value, calls |-> calls, w |-> w]

\* One transport call: the boto3 method, the arguments handed to it, and the
\* error it raised.
Call(api, args, err) == [api |-> api, args |-> args, err |-> err]

\* Python truthiness of None and of a str.
Truthy(v) == v.type = "str" /\ v.val # <<>>

\* The constructor's test `os.getenv(NAME) is None or ""`.
EnvVarNotSet(v) == (v = None) \/ Truthy(Str(<<>>))

\* What a construction gives back: the exception it raises, the instance
\* (its two fields), and how many boto3 client/resource objects were created.
Built(raised, self, created) ==
    [raised |-> raised, self |-> self, created |-> created]

\* S3_init with the resource built before the environment is checked.
S3_init_resource_first(env, data) ==
    IF data.s3_client = None
    THEN IF EnvVarNotSet(env.AWS_ACCESS_KEY_ID)
         THEN Built("Exception: AWS_ACCESS_KEY_ID env var is not set.", None, 1)
         ELSE IF EnvVarNotSet(env.AWS_SECRET_ACCESS_KEY)
         THEN Built("Exception: AWS_SECRET_ACCESS_KEY env var is not set.", None, 1)
         ELSE Built("", [s3_resource |-> Handle, s3_client |-> Handle], 1)
    ELSE Built("", [s3_resource |-> data.s3_resource, s3_client |-> data.s3_client], 0)

\* S3(**data): pydantic sets the two fields from data, then the body runs.
S3_init(env, data) ==
    IF data.s3_client = None
    THEN IF EnvVarNotSet(env.AWS_ACCESS_KEY_ID)
         THEN Built("Exception: AWS_ACCESS_KEY_ID env var is not set.", None, 0)
         ELSE IF EnvVarNotSet(env.AWS_SECRET_ACCESS_KEY)
         THEN Built("Exception: AWS_SECRET_ACCESS_KEY env var is not set.", None, 0)
         ELSE Built("", [s3_resource |-> Handle, s3_client |-> Handle], 1)
    ELSE Built("", [s3_resource |-> data.s3_resource, s3_client |-> data.s3_client], 0)

\* S3.default_boto3_resource_init(**kwargs): builds the resource itself and
\* passes both handles to the constructor.
default_boto3_resource_init(env) ==
    LET made == S3_init(env, [s3_resource |-> Handle, s3_client |-> Handle])
    IN  Built(made.raised, made.self, made.created + 1)

\* The older class: __post_init__ checks the environment and builds a client.
S3_post_init(env) ==
    IF EnvVarNotSet(env.AWS_ACCESS_KEY_ID)
    THEN Built("Exception: AWS_ACCESS_KEY_ID env var is not set.", None, 0)
    ELSE IF EnvVarNotSet(env.AWS_SECRET_ACCESS_KEY)
    THEN Built("Exception: AWS_SECRET_ACCESS_KEY env var is not set.", None, 0)
    ELSE Built("", [s3_resource |-> None, s3_client |-> Handle], 1)

\* Calling a method of a handle that is None.
AttributeError(w) == Result("AttributeError", None, <<>>, w)

get_list_of_buckets(self, w) ==
    IF self.s3_client = None THEN AttributeError(w)
    ELSE
    LET r == client_list_buckets(w)
        calls == <<Call("list_buckets", <<>>, r.err)>>
    IN  IF r.err # "" THEN Result(r.err, None, calls, r.w)
        ELSE Result("",
                    [i \in 1..Len(r.resp.Buckets) |-> r.resp.Buckets[i].Name],
                    calls, r.w)

does_bucket_exist(self, w, bucket_name) ==
    LET l == get_list_of_buckets(self, w)
    IN  IF l.raised # "" THEN l
        ELSE Result("", bucket_name \in Elems(l.value), l.calls, l.w)

\* download_file without the str() casts.
download_file_uncoerced(self, w, bucket_name, local_filepath, remote_filepath) ==
    IF self.s3_client = None THEN AttributeError(w)
    ELSE
    LET r == client_download_file(w, bucket_name, remote_filepath, local_filepath)
    IN  Result(r.err, None,
               <<Call("download_file",
                      [Bucket |-> bucket_name, Key |-> remote_filepath,
                       Filename |-> local_filepath],
                      r.err)>>,
               r.w)

download_file(self, w, bucket_name, local_filepath, remote_filepath) ==
    IF self.s3_client = None THEN AttributeError(w)
    ELSE
    LET r == client_download_file(w, bucket_name, str(remote_filepath),
                                  str(local_filepath))
    IN  Result(r.err, None,
               <<Call("download_file",
                      [Bucket |-> bucket_name, Key |-> str(remote_filepath),
                       Filename |-> str(local_filepath)],
                      r.err)>>,
               r.w)

upload_file(self, w, bucket_name, local_filepath, remote_filepath) ==
    IF self.s3_client = None THEN AttributeError(w)
    ELSE
    LET r == client_upload_file(w, local_filepath, bucket_name, remote_filepath)
    IN  Result(r.err, None,
               <<Call("upload_file",
                      [Bucket |-> bucket_name, Key |-> remote_filepath,
                       Filename |-> local_filepath],
                      r.err)>>,
               r.w)

\* delete_file that treats a key the bucket does not hold as an error.
delete_file_strict(self, w, bucket_name, remote_filepath) ==
    IF self.s3_client = None THEN AttributeError(w)
    ELSE
    LET r == client_delete_object(w, bucket_name, remote_filepath)
        err == IF /\ r.err = ""
                  /\ remote_filepath.val \notin w.objects[bucket_name]
               THEN "NoSuchKey"
               ELSE r.err
    IN  Result(err, None,
               <<Call("delete_object",
                      [Bucket |-> bucket_name, Key |-> remote_filepath],
                      r.err)>>,
               r.w)

delete_file(self, w, bucket_name, remote_filepath) ==
    IF self.s3_client = None THEN AttributeError(w)
    ELSE
    LET r == client_delete_object(w, bucket_name, remote_filepath)
    IN  Result(r.err, None,
               <<Call("delete_object",
                      [Bucket |-> bucket_name, Key |-> remote_filepath],
                      r.err)>>,
               r.w)

\* What the try block of get_file_list raises: the transport's error, or
\* KeyError when the response has no "Contents".
ContentsLookup(r) ==
    IF r.err # "" THEN r.err
    ELSE IF "Contents" \notin DOMAIN r.resp THEN "KeyError"
    ELSE ""

\* FileListOf with the loop stopping one entry short.
FileListOf_off_by_one(r, calls) ==
    IF ContentsLookup(r) = "KeyError" THEN Result("", <<>>, calls, r.w)
    ELSE IF ContentsLookup(r) # "" THEN Result(ContentsLookup(r), None, calls, r.w)
    ELSE Result("",
                [i \in 1..(Len(r.resp.Contents) - 1) |-> r.resp.Contents[i].Key],
                calls, r.w)

\* FileListOf without the `except KeyError` handler.
FileListOf_uncaught(r, calls) ==
    IF ContentsLookup(r) # "" THEN Result(ContentsLookup(r), None, calls, r.w)
    ELSE Result("",
                [i \in 1..Len(r.resp.Contents) |-> r.resp.Contents[i].Key],
                calls, r.w)

\* FileListOf with a handler that catches every exception.
FileListOf_bare_except(r, calls) ==
    IF ContentsLookup(r) # "" THEN Result("", <<>>, calls, r.w)
    ELSE Result("",
                [i \in 1..Len(r.resp.Contents) |-> r.resp.Contents[i].Key],
                calls, r.w)

\* The rest of get_file_list, given the reply of the listing call: `except
\* KeyError` returns the empty list, any other exception propagates.
FileListOf(r, calls) ==
    IF ContentsLookup(r) = "KeyError" THEN Result("", <<>>, calls, r.w)
    ELSE IF ContentsLookup(r) # "" THEN Result(ContentsLookup(r), None, calls, r.w)
    ELSE Result("",
                [i \in 1..Len(r.resp.Contents) |-> r.resp.Contents[i].Key],
                calls, r.w)

get_file_list(self, w, bucket_name) ==
    IF self.s3_client = None THEN AttributeError(w)
    ELSE
    LET r == client_list_objects_v2(w, bucket_name)
    IN  FileListOf(r, <<Call("list_objects_v2", [Bucket |-> bucket_name], r.err)>>)

\* get_file_list of the older class, over list_objects.
legacy_get_file_list(self, w, bucket_name) ==
    IF self.s3_client = None THEN AttributeError(w)
    ELSE
    LET r == client_list_objects(w, bucket_name)
    IN  FileListOf(r, <<Call("list_objects", [Bucket |-> bucket_name], r.err)>>)

RECURSIVE DrainPages(_, _, _, _)
\* The loop over my_bucket.objects.filter(Prefix=...), from page i on: the
\* keys appended to file_list and the page requests made.
DrainPages(w, bucket_name, directory_prefix, i) ==
    LET here == [keys |-> FilterPage(w, bucket_name, directory_prefix, i),
                 calls |-> <<Call("list_objects",
                                  [Bucket |-> bucket_name,
                                   Prefix |-> directory_prefix, Page |-> i],
                                  "")>>]
    IN  IF i >= FilterPages(w, bucket_name, directory_prefix) THEN here
        ELSE LET rest == DrainPages(w, bucket_name, directory_prefix, i + 1)
             IN  [keys |-> here.keys \o rest.keys,
                  calls |-> here.calls \o rest.calls]

get_file_list_by_dir(self, w, bucket_name, directory_prefix) ==
    IF self.s3_resource = None THEN AttributeError(w)
    ELSE IF BucketError(w, bucket_name) # ""
    THEN Result(BucketError(w, bucket_name), None,
                <<Call("list_objects",
                       [Bucket |-> bucket_name, Prefix |-> directory_prefix,
                        Page |-> 1],
                       BucketError(w, bucket_name))>>,
                w)
    ELSE LET d == DrainPages(w, bucket_name, directory_prefix, 1)
         IN  Result("", d.keys, d.calls, w)

\* create_bucket without its else branch: nothing is sent when no location
\* is given.
create_bucket_location_only(self, w, bucket_name, location) ==
    IF self.s3_client = None THEN AttributeError(w)
    ELSE IF ~Truthy(location) THEN Result("", None, <<>>, w)
    ELSE
    LET conf == [LocationConstraint |-> location]
        r == client_create_bucket(w, bucket_name, conf)
    IN  Result(r.err, None,
               <<Call("create_bucket",
                      [Bucket |-> bucket_name, CreateBucketConfiguration |-> conf],
                      r.err)>>,
               r.w)

create_bucket(self, w, bucket_name, location) ==
    IF self.s3_client = None THEN AttributeError(w)
    ELSE
    LET conf == IF Truthy(location)
                THEN [LocationConstraint |-> location]
                ELSE None
        r == client_create_bucket(w, bucket_name, conf)
    IN  Result(r.err, None,
               <<Call("create_bucket",
                      [Bucket |-> bucket_name, CreateBucketConfiguration |-> conf],
                      r.err)>>,
               r.w)

\* delete_bucket that catches the transport's exception and returns.
delete_bucket_quiet(self, w, bucket_name) ==
    IF self.s3_client = None THEN AttributeError(w)
    ELSE
    LET r == client_delete_bucket(w, bucket_name)
    IN  Result("", None,
               <<Call("delete_bucket", [Bucket |-> bucket_name], r.err)>>,
               r.w)

delete_bucket(self, w, bucket_name) ==
    IF self.s3_client = None THEN AttributeError(w)
    ELSE
    LET r == client_delete_bucket(w, bucket_name)
    IN  Result(r.err, None,
               <<Call("delete_bucket", [Bucket |-> bucket_name], r.err)>>,
               r.w)

generate_download_link_for_file(self, w, bucket_name, file_name, time_to_expiry) ==
    IF self.s3_client = None THEN AttributeError(w)
    ELSE
    LET r == client_generate_presigned_url(
                 w, "get_object", [Bucket |-> bucket_name, Key |-> file_name],
                 time_to_expiry)
    IN  Result(r.err, r.resp,
               <<Call("generate_presigned_url",
                      [Bucket |-> bucket_name, Key |-> file_name,
                       ExpiresIn |-> time_to_expiry],
                      r.err)>>,
               r.w)

(***************************************************************************)
(* The state machine: one caller, one instance, one call at a time.        *)
(*   inst   the instance the caller holds: state "none" before any         *)
(*          construction, "failed" after a construction that raised,       *)
(*          "built" with the class (impl) and the two fields after one     *)
(*          that returned                                                  *)
(*   world  the object store and the local files                           *)
(*   last   the last call: the method, its arguments, the world before     *)
(*          it, and what it gave back                                      *)
(***************************************************************************)
VARIABLES inst, world, last

vars == <<inst, world, last>>

\* Default of time_to_expiry.
DefaultExpiry == 3600

NoInstance == [state |-> "none", impl |-> "", self |-> None]

Init ==
    /\ inst = NoInstance
    /\ world \in {w \in Worlds :
                    /\ \A b \in Buckets : w.owner[b] \in {"none", "other"}
                    /\ \A b \in Buckets : w.objects[b] = {}
                    /\ w.files = { <<"t">> }}
    /\ last = [op |-> "start"]

\* The instance after a construction.
Instance(impl, made) ==
    IF made.raised # ""
    THEN [state |-> "failed", impl |-> impl, self |-> None]
    ELSE [state |-> "built", impl |-> impl, self |-> made.self]

\* S3(s3_resource=..., s3_client=...) with any of the two handles given.
Construct ==
    /\ inst.state # "built"
    /\ \E env \in Envs, data \in [s3_resource : Handles, s3_client : Handles] :
         LET made == S3_init(env, data)
         IN  /\ inst' = Instance("aws_s3_pydantic", made)
             /\ last' = [op |-> "S3", args |-> [env |-> env, data |-> data],
                         pre |-> world, made |-> made]
    /\ UNCHANGED world

\* S3.default_boto3_resource_init(...)
ConstructDefault ==
    /\ inst.state # "built"
    /\ \E env \in Envs :
         LET made == default_boto3_resource_init(env)
         IN  /\ inst' = Instance("aws_s3_pydantic", made)
             /\ last' = [op |-> "default_boto3_resource_init",
                         args |-> [env |-> env], pre |-> world, made |-> made]
    /\ UNCHANGED world

\* S3() of the older class.
ConstructLegacy ==
    /\ inst.state # "built"
    /\ \E env \in Envs :
         LET made == S3_post_init(env)
         IN  /\ inst' = Instance("src", made)
             /\ last' = [op |-> "legacy S3", args |-> [env |-> env],
                         pre |-> world, made |-> made]
    /\ UNCHANGED world

\* A method call on the built instance: the world moves to the one the call
\* leaves, and the call is recorded.
Invoke(op, args, res) ==
    /\ world' = res.w
    /\ last' = [op |-> op, args |-> args, pre |-> world, raised |-> res.raised,
                value |-> res.value, calls |-> res.calls]
    /\ UNCHANGED inst

DoesBucketExist ==
    /\ inst.state = "built"
    /\ \E b \in Buckets :
         Invoke("does_bucket_exist", [bucket_name |-> b],
                does_bucket_exist(inst.self, world, b))

GetListOfBuckets ==
    /\ inst.state = "built"
    /\ Invoke("get_list_of_buckets", <<>>, get_list_of_buckets(inst.self, world))

DownloadFile ==
    /\ inst.state = "built"
    /\ \E b \in Buckets, l \in LocalArgs, r \in RemoteArgs :
         Invoke("download_file",
                [bucket_name |-> b, local_filepath |-> l, remote_filepath |-> r],
                download_file(inst.self, world, b, l, r))

UploadFile ==
    /\ inst.state = "built"
    /\ \E b \in Buckets, l \in LocalArgs, r \in RemoteArgs :
         Invoke("upload_file",
                [bucket_name |-> b, local_filepath |-> l, remote_filepath |-> r],
                upload_file(inst.self, world, b, l, r))

DeleteFile ==
    /\ inst.state = "built"
    /\ \E b \in Buckets, r \in RemoteArgs :
         Invoke("delete_file", [bucket_name |-> b, remote_filepath |-> r],
                delete_file(inst.self, world, b, r))

GetFileList ==
    /\ inst.state = "built"
    /\ \E b \in Buckets :
         Invoke("get_file_list", [bucket_name |-> b],
                IF inst.impl = "src"
                THEN legacy_get_file_list(inst.self, world, b)
                ELSE get_file_list(inst.self, world, b))

\* Only the newer class has get_file_list_by_dir.
GetFileListByDir ==
    /\ inst.state = "built"
    /\ inst.impl = "aws_s3_pydantic"
    /\ \E b \in Buckets, p \in Prefixes :
         Invoke("get_file_list_by_dir",
                [bucket_name |-> b, directory_prefix |-> p],
                get_file_list_by_dir(inst.self, world, b, p))

CreateBucket ==
    /\ inst.state = "built"
    /\ \E b \in Buckets, loc \in Locations :
         Invoke("create_bucket", [bucket_name |-> b, location |-> loc],
                create_bucket(inst.self, world, b, loc))

DeleteBucket ==
    /\ inst.state = "built"
    /\ \E b \in Buckets :
         Invoke("delete_bucket", [bucket_name |-> b],
                delete_bucket(inst.self, world, b))

GenerateDownloadLinkForFile ==
    /\ inst.state = "built"
    /\ \E b \in Buckets, k \in Keys :
         Invoke("generate_download_link_for_file",
                [bucket_name |-> b, file_name |-> Str(k),
                 time_to_expiry |-> DefaultExpiry],
                generate_download_link_for_file(inst.self, world, b, Str(k),
                                                DefaultExpiry))

Next ==
    \/ Construct
    \/ ConstructDefault
    \/ ConstructLegacy
    \/ DoesBucketExist
    \/ GetListOfBuckets
    \/ DownloadFile
    \/ UploadFile
    \/ DeleteFile
    \/ GetFileList
    \/ GetFileListByDir
    \/ CreateBucket
    \/ DeleteBucket
    \/ GenerateDownloadLinkForFile

Spec == Init /\ [][Next]_vars

TypeOK ==
    /\ world \in Worlds
    /\ inst.state \in {"none", "failed", "built"}

(***************************************************************************)
(* Properties.                                                             *)
(***************************************************************************)
IsConstruction == last.op \in {"S3", "default_boto3_resource_init", "legacy S3"}

IsMethodCall == last.op # "start" /\ ~IsConstruction

\* The result the next listObjects(b) would give in the current state.
NextFileList(b) ==
    IF inst.impl = "src"
    THEN legacy_get_file_list(inst.self, world, b)
    ELSE get_file_list(inst.self, world, b)

\* The result the next bucketExists(b) would give in the current state.
NextBucketExists(b) == does_bucket_exist(inst.self, world, b)

\* The last call was a construction on the environment-default path: no
\* client handle was passed.
EnvDefaultConstruction ==
    \/ last.op = "legacy S3"
    \/ last.op = "S3" /\ last.args.data.s3_client = None

CredentialAbsent ==
    \/ last.args.env.AWS_ACCESS_KEY_ID = None
    \/ last.args.env.AWS_SECRET_ACCESS_KEY = None

\* C1: on the environment-default path, a construction with the access-key-id
\* or the secret-access-key variable absent raises the configuration error,
\* with no boto3 client/resource object created, no instance, and the world
\* untouched (no transport call).
C1_MissingCredentialFailsBeforeTransport ==
    (EnvDefaultConstruction /\ CredentialAbsent) =>
        /\ last.made.raised \in
             {"Exception: AWS_ACCESS_KEY_ID env var is not set.",
              "Exception: AWS_SECRET_ACCESS_KEY env var is not set."}
        /\ last.made.created = 0
        /\ last.made.self = None
        /\ inst.state = "failed"
        /\ world = last.pre

\* C1 witness: the access key id is set, the secret is absent, and the
\* construction has raised.
C1_Witness ==
    /\ last.op = "S3"
    /\ last.args.data.s3_client = None
    /\ last.args.env.AWS_ACCESS_KEY_ID # None
    /\ last.args.env.AWS_SECRET_ACCESS_KEY = None
    /\ last.made.raised = "Exception: AWS_SECRET_ACCESS_KEY env var is not set."

\* C2: every instance a construction returns has every handle its methods
\* use: s3_client, and for the newer class (whose get_file_list_by_dir uses
\* it) s3_resource; so no method call ends in an AttributeError on a None
\* handle.
C2_ConstructedHasEveryHandle ==
    /\ inst.state = "built" =>
         /\ inst.self.s3_client # None
         /\ inst.impl = "aws_s3_pydantic" => inst.self.s3_resource # None
    /\ IsMethodCall => last.raised # "AttributeError"

\* C3 as stated: after a successful uploadFile(bucket, local, K), the next
\* listObjects(bucket) includes K, whatever the bucket holds.
C3_UploadThenListIncludes ==
    (last.op = "upload_file" /\ last.raised = "") =>
        /\ NextFileList(last.args.bucket_name).raised = ""
        /\ str(last.args.remote_filepath).val
             \in Elems(NextFileList(last.args.bucket_name).value)

\* The number of keys of bucket b that sort before key k.
KeysBefore(b, k) == Cardinality({o \in world.objects[b] : KeyLess(o, k)})

\* C3 amended: after a successful uploadFile(bucket, local, K), the next
\* listObjects(bucket) succeeds, and it includes K exactly when fewer than a
\* page of the bucket's keys sort before K (always, when the bucket holds at
\* most one page of keys).
C3_UploadThenListIncludesInFirstPage ==
    (last.op = "upload_file" /\ last.raised = "") =>
        LET b == last.args.bucket_name
            K == str(last.args.remote_filepath).val
        IN  /\ NextFileList(b).raised = ""
            /\ K \in world.objects[b]
            /\ K \in Elems(NextFileList(b).value) <=> KeysBefore(b, K) < PageSize
            /\ Cardinality(world.objects[b]) <= PageSize
                 => K \in Elems(NextFileList(b).value)

\* C3 witness: an upload into a bucket that then holds more than a page of
\* keys, with the uploaded key on the first page.
C3_Witness ==
    /\ last.op = "upload_file"
    /\ last.raised = ""
    /\ Cardinality(world.objects[last.args.bucket_name]) > PageSize
    /\ last.args.remote_filepath.val
         \in Elems(NextFileList(last.args.bucket_name).value)

\* C4: deleteFile(bucket, K) on an existing bucket does not raise, the next
\* listObjects(bucket) excludes K, the bucket holds what it held minus K, so
\* nothing changes when K was not there, and no other bucket changes.
C4_DeleteFileIdempotent ==
    (/\ last.op = "delete_file"
     /\ last.pre.owner[last.args.bucket_name] = "me"
     /\ last.args.remote_filepath.type = "str") =>
        LET b == last.args.bucket_name
            K == last.args.remote_filepath.val
        IN  /\ last.raised = ""
            /\ NextFileList(b).raised = ""
            /\ K \notin Elems(NextFileList(b).value)
            /\ world.objects[b] = last.pre.objects[b] \ {K}
            /\ K \notin last.pre.objects[b] => world = last.pre
            /\ \A o \in Buckets \ {b} : world.objects[o] = last.pre.objects[o]
            /\ world.owner = last.pre.owner

\* C4 witness: deleteFile of a key the (non-empty) bucket does not hold.
C4_Witness ==
    /\ last.op = "delete_file"
    /\ last.pre.owner[last.args.bucket_name] = "me"
    /\ last.args.remote_filepath.type = "str"
    /\ last.pre.objects[last.args.bucket_name] # {}
    /\ last.args.remote_filepath.val \notin last.pre.objects[last.args.bucket_name]
    /\ last.raised = ""

\* C5: listObjects on an existing bucket that holds no object returns the
\* empty sequence and does not raise.
C5_EmptyBucketListsEmpty ==
    (/\ last.op = "get_file_list"
     /\ last.pre.owner[last.args.bucket_name] = "me"
     /\ last.pre.objects[last.args.bucket_name] = {}) =>
        /\ last.raised = ""
        /\ last.value = <<>>

\* C5 witness: listObjects on an existing empty bucket, answered by a
\* response without "Contents".
C5_Witness ==
    /\ last.op = "get_file_list"
    /\ last.pre.owner[last.args.bucket_name] = "me"
    /\ last.pre.objects[last.args.bucket_name] = {}
    /\ Len(last.calls) = 1
    /\ last.calls[1].err = ""
    /\ last.value = <<>>

\* The keys of bucket b that start with prefix p, before the last call.
Matching(b, p) == {k \in last.pre.objects[b] : StartsWith(k, p)}

\* C6: listObjectsByPrefix(bucket, P) on an existing bucket returns exactly
\* the keys of the bucket that start with P, each once, over all pages.
C6_ListByPrefixExact ==
    (/\ last.op = "get_file_list_by_dir"
     /\ last.pre.owner[last.args.bucket_name] = "me") =>
        /\ last.raised = ""
        /\ Elems(last.value)
             = Matching(last.args.bucket_name, last.args.directory_prefix)
        /\ Len(last.value) = Cardinality(Elems(last.value))

\* C6 on an instance that has its resource handle: the result is exact.
C6_ListByPrefixExactWithResource ==
    (/\ last.op = "get_file_list_by_dir"
     /\ last.pre.owner[last.args.bucket_name] = "me"
     /\ inst.self.s3_resource # None) =>
        /\ last.raised = ""
        /\ Elems(last.value)
             = Matching(last.args.bucket_name, last.args.directory_prefix)
        /\ Len(last.value) = Cardinality(Elems(last.value))

\* C7: createBucket(name), with or without a region, on a name that does not
\* exist succeeds, and the next bucketExists(name) returns true.
C7_CreateThenExists ==
    (/\ last.op = "create_bucket"
     /\ last.pre.owner[last.args.bucket_name] = "none") =>
        /\ last.raised = ""
        /\ NextBucketExists(last.args.bucket_name).raised = ""
        /\ NextBucketExists(last.args.bucket_name).value = TRUE

\* C7 witness: createBucket with a region, passed on as the location
\* constraint, on a name that did not exist.
C7_Witness ==
    /\ last.op = "create_bucket"
    /\ last.pre.owner[last.args.bucket_name] = "none"
    /\ Truthy(last.args.location)
    /\ last.calls[1].args.CreateBucketConfiguration
         = [LocationConstraint |-> last.args.location]
    /\ last.raised = ""

\* C8: deleteBucket on a bucket that holds an object raises the transport's
\* error and leaves the bucket and its objects in place; on an existing empty
\* bucket it succeeds and the next bucketExists returns false.
C8_DeleteBucket ==
    (/\ last.op = "delete_bucket"
     /\ last.pre.owner[last.args.bucket_name] = "me") =>
        IF last.pre.objects[last.args.bucket_name] # {}
        THEN /\ last.raised = "BucketNotEmpty"
             /\ world = last.pre
        ELSE /\ last.raised = ""
             /\ NextBucketExists(last.args.bucket_name).raised = ""
             /\ NextBucketExists(last.args.bucket_name).value = FALSE

\* C8 witness: deleteBucket on a bucket that holds objects has raised.
C8_Witness ==
    /\ last.op = "delete_bucket"
    /\ last.pre.owner[last.args.bucket_name] = "me"
    /\ last.pre.objects[last.args.bucket_name] # {}
    /\ last.raised = "BucketNotEmpty"

\* C9: when a transport call of a method fails, the method raises that same
\* error, it made exactly that one transport call, it returns nothing and the
\* world is as before; listObjects on a bucket that does not exist raises.
C9_TransportFailurePropagates ==
    IsMethodCall =>
        /\ \A i \in 1..Len(last.calls) :
             last.calls[i].err # "" =>
                 /\ last.raised = last.calls[i].err
                 /\ Len(last.calls) = 1
                 /\ last.value = None
                 /\ world = last.pre
        /\ (/\ last.op = "get_file_list"
            /\ last.pre.owner[last.args.bucket_name] = "none")
             => last.raised = "NoSuchBucket"

\* C9 witness: listObjects on a bucket that does not exist has raised
\* NoSuchBucket after one transport call.
C9_Witness ==
    /\ last.op = "get_file_list"
    /\ last.pre.owner[last.args.bucket_name] = "none"
    /\ Len(last.calls) = 1
    /\ last.calls[1].err = "NoSuchBucket"
    /\ last.raised = "NoSuchBucket"

\* The path arguments a transport call was handed.
PathArgsOf(call) ==
    {call.args[f] : f \in DOMAIN call.args \cap {"Key", "Filename"}}

\* C10 as stated: every path value uploadFile, downloadFile and deleteFile
\* hand to the transport is a string.
C10_PathsCoerced ==
    last.op \in {"upload_file", "download_file", "delete_file"} =>
        \A i \in 1..Len(last.calls) :
            \A v \in PathArgsOf(last.calls[i]) : v.type = "str"

\* C10 amended: downloadFile hands the transport str(local path) and
\* str(remote path), both strings; uploadFile and deleteFile hand it their
\* path arguments unchanged, so a string exactly when the caller passed one.
C10_OnlyDownloadCoerces ==
    /\ last.op = "download_file" =>
         /\ Len(last.calls) = 1
         /\ last.calls[1].args.Key = str(last.args.remote_filepath)
         /\ last.calls[1].args.Filename = str(last.args.local_filepath)
         /\ \A v \in PathArgsOf(last.calls[1]) : v.type = "str"
    /\ last.op = "upload_file" =>
         /\ Len(last.calls) = 1
         /\ last.calls[1].args.Key = last.args.remote_filepath
         /\ last.calls[1].args.Filename = last.args.local_filepath
    /\ last.op = "delete_file" =>
         /\ Len(last.calls) = 1
         /\ last.calls[1].args.Key = last.args.remote_filepath

\* C10 witness: downloadFile called with two pathlib.Path arguments has
\* handed the transport the strings "p/x" and "d/t".
C10_Witness ==
    /\ last.op = "download_file"
    /\ last.args.local_filepath.type = "Path"
    /\ last.args.remote_filepath.type = "Path"
    /\ last.calls[1].args.Key = Str(<<"p", "/", "x">>)
    /\ last.calls[1].args.Filename = Str(<<"d", "/", "t">>)

=============================================================================
